---- MODULE Spec2Model ----
\* Verification model of the software-project-bot: the MongoDB connector
\* (src/mongodb_connector.py), the tool dispatch of the event handler
\* (src/event_handler.py) and the conversation turn of src/main.py.
EXTENDS Integers, Sequences, FiniteSets, TLC

VARIABLES
    db,            \* the MongoDB database the connector reads
    last,          \* the connector call made directly and its result
    pc,            \* where main()'s conversation loop stands
    hpc,           \* where the event handler stands
    handler,       \* the EventHandler of the open stream: its attributes
    batch,         \* the tool calls of the requires_action event
    pos,           \* the tool call handle_requires_action is at
    tool_outputs,  \* the local list of handle_requires_action
    waitres,       \* why wait_for_tools left its loop
    elapsed,       \* seconds spent in wait_for_tools
    submitted,     \* what the turn passed to submit_tool_outputs_stream
    signals,       \* requires_action signals of the turn still awaiting outputs
    err            \* whether main() caught an exception in this turn

botvars == <<pc, hpc, handler, batch, pos, tool_outputs, waitres, elapsed, submitted,
             signals, err>>
vars == <<db, last, botvars>>

\* ---------------------------------------------------------------- bounds
MaxIssues == 4
MaxPage == 2
MaxPageSize == 2
MaxFault == 5
MaxBatch == 2
MaxDepth == 2

\* ---------------------------------------------------------------- values
\* A stored or passed value is tagged with its Python/BSON type, so that
\* equality is type-sensitive as in MongoDB: ObjectId(x) # the string x.
Str(s) == [t |-> "str", v |-> s]
Oid(h) == [t |-> "oid", v |-> h]
Null == [t |-> "null", v |-> ""]
\* a key that the document does not have
Missing == [t |-> "missing", v |-> ""]
\* a text field (title, desc, component) or text argument: a tuple of characters
Txt(cs) == [t |-> "txt", v |-> cs]
\* a datetime.datetime, named by the text its isoformat() gives
Date(iso) == [t |-> "date", v |-> iso]
Num(n) == [t |-> "int", v |-> n]
\* a Python list of values and a Python dict from keys to values
List(xs) == [t |-> "list", v |-> xs]
Dict(m) == [t |-> "dict", v |-> m]

\* 24-digit hexadecimal strings, the only strings ObjectId.is_valid accepts
H1 == "64b0c0ffee00000000000a11"
H2 == "64b0c0ffee00000000000b22"
HexIds == {H1, H2}

\* ObjectId.is_valid(x) for a str or None argument
ObjectIdIsValid(x) == x.t = "oid" \/ (x.t = "str" /\ x.v \in HexIds)

\* Python truthiness of a str-or-None argument (`if status:`)
Truthy(x) ==
    CASE x.t = "null" -> FALSE
      [] x.t = "missing" -> FALSE
      [] x.t = "txt" -> x.v # <<>>
      [] x.t = "str" -> x.v # ""
      [] OTHER -> TRUE

\* ObjectId(x) if ObjectId.is_valid(x) else x
ToObjectId(x) == IF ObjectIdIsValid(x) THEN Oid(x.v) ELSE x

\* ------------------------------------------------------------ the store
Project == <<
    [_id |-> Oid("p1"), name |-> Str("alpha")],
    [_id |-> Oid("p2"), name |-> Str("beta")] >>

IssueSystem == <<
    [_id |-> Oid("s1"), project_id |-> Oid("p1")],
    [_id |-> Oid("s2"), project_id |-> Oid("p1")],
    [_id |-> Oid("s3"), project_id |-> Oid("p2")] >>

\* The issue documents a store is made of, in store (insertion) order.
IssueDocs == <<
    [_id |-> Oid("i1"), issue_system_id |-> Oid("s1"), external_id |-> Str("ALPHA-1"),
     status |-> Str("Resolved"), priority |-> Str("Major"), issue_type |-> Str("Bug"),
     assignee_id |-> Oid(H1), reporter_id |-> Oid(H2),
     component |-> Txt(<<"U", "I">>), title |-> Txt(<<"f", "i", "x">>), desc |-> Missing],
    [_id |-> Oid("i2"), issue_system_id |-> Oid("s2"), external_id |-> Str("ALPHA-2"),
     status |-> Str("Resolved"), priority |-> Str("Minor"), issue_type |-> Str("Bug"),
     assignee_id |-> Str("bob"), reporter_id |-> Str(H2),
     component |-> Missing, title |-> Txt(<<"U", "i">>), desc |-> Txt(<<"F", "i", "x">>)],
    [_id |-> Oid("i3"), issue_system_id |-> Oid("s1"), external_id |-> Str("ALPHA-3"),
     status |-> Str("Open"), priority |-> Str("Major"), issue_type |-> Str("Task"),
     assignee_id |-> Str(H1), reporter_id |-> Oid(H2),
     component |-> Txt(<<"u", "i">>), title |-> Txt(<<"a">>), desc |-> Null],
    [_id |-> Oid("i4"), issue_system_id |-> Oid("s3"), external_id |-> Str("BETA-1"),
     status |-> Str("Resolved"), priority |-> Str("Major"), issue_type |-> Str("Bug"),
     assignee_id |-> Str("bob"), reporter_id |-> Oid(H2),
     component |-> Txt(<<"u", "i">>), title |-> Txt(<<"f", "i", "x">>), desc |-> Missing],
    [_id |-> Oid("i5"), issue_system_id |-> Oid("s1"), external_id |-> Str("ALPHA-5"),
     status |-> Missing, priority |-> Missing, issue_type |-> Missing,
     assignee_id |-> Missing, reporter_id |-> Missing,
     component |-> Missing, title |-> Missing, desc |-> Missing],
    [_id |-> Oid("i6"), issue_system_id |-> Oid("s2"), external_id |-> Str("ALPHA-6"),
     status |-> Str("Resolved"), priority |-> Str("Major"), issue_type |-> Str("Bug"),
     assignee_id |-> Null, reporter_id |-> Null,
     component |-> Txt(<<"u", "i">>), title |-> Txt(<<"f", "i", "x">>), desc |-> Missing],
    [_id |-> Oid("i7"), issue_system_id |-> Oid("s1"), external_id |-> Str("ALPHA-7"),
     status |-> Str("Resolved"), priority |-> Str("Major"), issue_type |-> Str("Bug"),
     assignee_id |-> Str("carol"), reporter_id |-> Oid(H2),
     component |-> Missing, title |-> Txt(<<"a">>), desc |-> Missing],
    [_id |-> Oid("i8"), issue_system_id |-> Oid("s2"), external_id |-> Str("ALPHA-8"),
     status |-> Str("Open"), priority |-> Str("Minor"), issue_type |-> Str("Task"),
     assignee_id |-> Str("dave"), reporter_id |-> Str("erin"),
     component |-> Missing, title |-> Txt(<<"f", "i", "x">>), desc |-> Txt(<<"a">>)] >>

\* comments, events and commits; a reference is stored as the native
\* identifier or, by some importers, as its string form
IssueComment == <<
    [_id |-> Oid("c1"), issue_id |-> Oid("i1"), author_id |-> Oid(H2)],
    [_id |-> Oid("c2"), issue_id |-> Str("i1"), author_id |-> Oid(H2)],
    [_id |-> Oid("c3"), issue_id |-> Oid("i2"), author_id |-> Oid(H1)] >>

Event == <<
    [_id |-> Oid("e1"), issue_id |-> Oid("i1"), status |-> Str("Resolved")],
    [_id |-> Oid("e2"), issue_id |-> Oid("i7"), status |-> Str("Resolved")] >>

Commit == <<
    [_id |-> Oid("k1"), linked_issue_ids |-> {Oid("i1"), Oid("i2")}],
    [_id |-> Oid("k2"), linked_issue_ids |-> {}] >>

CollectionNames == {"project", "issue_system", "issue", "issue_comment", "event", "commit"}

IssueIds == {IssueDocs[i]._id : i \in DOMAIN IssueDocs}

\* the stores: any at most MaxIssues of the documents, kept in store order
Stores ==
    {[project |-> Project, issue_system |-> IssueSystem,
      issue |-> SelectSeq(IssueDocs, LAMBDA d : d._id \in S),
      issue_comment |-> IssueComment, event |-> Event, commit |-> Commit] :
        S \in {T \in SUBSET IssueIds : Cardinality(T) <= MaxIssues}}

\* ------------------------------------------------------- store accesses
\* The n-th store access of a call raises when fault = n (0: no access raises).
StoreError == [text |-> "store failure", arg |-> Null]
SkipError == [text |-> "The 'skip' parameter must be >= 0", arg |-> Null]

\* an exception leaving a function body; a dict never has the key "raise"
Raise(e) == [raise |-> e]
Raised(r) == "raise" \in DOMAIN r

\* try: <body> except Exception as e: return {"error": str(e)}
TryExcept(r) == IF Raised(r) THEN [error |-> r.raise] ELSE r

\* f"Project '{project_name}' not found."
ProjectNotFound(project_name) ==
    [text |-> "Project '{}' not found.", arg |-> project_name]

\* db["project"].find_one({"name": project_name}): the matching documents,
\* of which find_one returns the first, or None when there is none
FindProject(d, project_name) ==
    SelectSeq(d.project, LAMBDA p : p.name = project_name)

\* [system["_id"] for system in db["issue_system"].find({"project_id": project["_id"]})]
SystemIdsOf(d, project) ==
    LET systems == SelectSeq(d.issue_system, LAMBDA s : s.project_id = project._id)
    IN  [i \in DOMAIN systems |-> systems[i]._id]

Range(s) == {s[i] : i \in DOMAIN s}

\* A query is {"issue_system_id": {"$in": ids}} plus equality conditions,
\* held as a function from the field names that were added to their values.
NoCond == [f \in {} |-> Null]
AddCond(cond, f, x) == [g \in DOMAIN cond \cup {f} |-> IF g = f THEN x ELSE cond[g]]

\* whether a document matches a query (a missing field equals no value)
Matches(doc, q) ==
    /\ doc.issue_system_id \in Range(q.ids)
    /\ \A f \in DOMAIN q.cond : doc[f] = q.cond[f]

\* db["issue"].find(query) in store order, and count_documents(query)
FindIssues(d, q) == SelectSeq(d.issue, LAMBDA doc : Matches(doc, q))
CountDocuments(d, q) == Len(FindIssues(d, q))

\* cursor.skip(n).limit(m) for n >= 0, m >= 1
SkipLimit(s, n, m) ==
    SubSeq(s, n + 1, IF n + m < Len(s) THEN n + m ELSE Len(s))

\* ------------------------------------------------------- serialization
\* str(doc) of an ObjectId, doc.isoformat() of a datetime, else doc itself
SerializeValue(x) ==
    IF x.t = "oid" THEN Str(x.v)
    ELSE IF x.t = "date" THEN Str(x.v)
    ELSE x
SerializeDoc(doc) == [f \in DOMAIN doc |-> SerializeValue(doc[f])]
\* serialize_mongo_doc over a list of flat documents
serialize_mongo_doc(docs) == [i \in DOMAIN docs |-> SerializeDoc(docs[i])]

\* faulty variant: only the outermost list or dict is rebuilt
SerializeMongoDoc_Shallow(doc) ==
    CASE doc.t = "list" -> List([i \in DOMAIN doc.v |-> SerializeValue(doc.v[i])])
      [] doc.t = "dict" -> Dict([k \in DOMAIN doc.v |-> SerializeValue(doc.v[k])])
      [] OTHER -> SerializeValue(doc)

\* serialize_mongo_doc over a value nested to any depth
RECURSIVE SerializeMongoDoc(_)
SerializeMongoDoc(doc) ==
    CASE doc.t = "list" -> List([i \in DOMAIN doc.v |-> SerializeMongoDoc(doc.v[i])])
      [] doc.t = "dict" -> Dict([k \in DOMAIN doc.v |-> SerializeMongoDoc(doc.v[k])])
      [] doc.t = "oid" -> Str(doc.v)
      [] doc.t = "date" -> Str(doc.v)
      [] OTHER -> doc

\* ------------------------------------------------ fetch_project_issues
FetchQuery(ids, a) ==
    LET c1 == IF Truthy(a.status) THEN AddCond(NoCond, "status", a.status) ELSE NoCond
        c2 == IF Truthy(a.priority) THEN AddCond(c1, "priority", a.priority) ELSE c1
        c3 == IF Truthy(a.issue_type) THEN AddCond(c2, "issue_type", a.issue_type) ELSE c2
        c4 == IF Truthy(a.assignee_id)
              THEN AddCond(c3, "assignee_id", ToObjectId(a.assignee_id)) ELSE c3
        c5 == IF Truthy(a.reporter_id)
              THEN AddCond(c4, "reporter_id", ToObjectId(a.reporter_id)) ELSE c4
    IN  [ids |-> ids, cond |-> c5]

\* faulty variant: the offset of the page after the requested one
SkipOf_NextPage(page, page_size) == page * page_size

\* skip = (page - 1) * page_size
SkipOf(page, page_size) == (page - 1) * page_size

FetchBody(d, a, fault) ==
    IF fault = 1 THEN Raise(StoreError)
    ELSE LET found == FindProject(d, a.project_name) IN
    IF found = <<>> THEN [error |-> ProjectNotFound(a.project_name)]
    ELSE IF fault = 2 THEN Raise(StoreError)
    ELSE LET query == FetchQuery(SystemIdsOf(d, Head(found)), a)
             skip == SkipOf(a.page, a.page_size)
         IN
    IF skip < 0 THEN Raise(SkipError)
    ELSE IF fault \in {3, 4} THEN Raise(StoreError)
    ELSE [issues |-> serialize_mongo_doc(SkipLimit(FindIssues(d, query), skip, a.page_size)),
          page |-> a.page,
          page_size |-> a.page_size,
          total_count |-> CountDocuments(d, query)]

fetch_project_issues(d, a, fault) == TryExcept(FetchBody(d, a, fault))

\* -------------------------------------------------------- count_issues
\* faulty variant: count_issues forgets the issue_type filter
CountQuery_NoIssueType(ids, a) ==
    LET c1 == IF Truthy(a.status) THEN AddCond(NoCond, "status", a.status) ELSE NoCond
        c2 == IF Truthy(a.priority) THEN AddCond(c1, "priority", a.priority) ELSE c1
        c4 == IF Truthy(a.assignee_id)
              THEN AddCond(c2, "assignee_id", ToObjectId(a.assignee_id)) ELSE c2
        c5 == IF Truthy(a.reporter_id)
              THEN AddCond(c4, "reporter_id", ToObjectId(a.reporter_id)) ELSE c4
    IN  [ids |-> ids, cond |-> c5]

CountQuery(ids, a) ==
    LET c1 == IF Truthy(a.status) THEN AddCond(NoCond, "status", a.status) ELSE NoCond
        c2 == IF Truthy(a.priority) THEN AddCond(c1, "priority", a.priority) ELSE c1
        c3 == IF Truthy(a.issue_type) THEN AddCond(c2, "issue_type", a.issue_type) ELSE c2
        c4 == IF Truthy(a.assignee_id)
              THEN AddCond(c3, "assignee_id", ToObjectId(a.assignee_id)) ELSE c3
        c5 == IF Truthy(a.reporter_id)
              THEN AddCond(c4, "reporter_id", ToObjectId(a.reporter_id)) ELSE c4
    IN  [ids |-> ids, cond |-> c5]

CountBody(d, a, fault) ==
    IF fault = 1 THEN Raise(StoreError)
    ELSE LET found == FindProject(d, a.project_name) IN
    IF found = <<>> THEN [error |-> ProjectNotFound(a.project_name)]
    ELSE IF fault \in {2, 3} THEN Raise(StoreError)
    ELSE [count |-> CountDocuments(d, CountQuery(SystemIdsOf(d, Head(found)), a))]

count_issues(d, a, fault) == TryExcept(CountBody(d, a, fault))

\* ----------------------------------------------- get_project_assignees
AssigneesQuery(ids, a) ==
    LET c1 == IF Truthy(a.status) THEN AddCond(NoCond, "status", a.status) ELSE NoCond
        c2 == IF Truthy(a.priority) THEN AddCond(c1, "priority", a.priority) ELSE c1
        c3 == IF Truthy(a.issue_type) THEN AddCond(c2, "issue_type", a.issue_type) ELSE c2
        c4 == IF Truthy(a.reporter_id)
              THEN AddCond(c3, "reporter_id", ToObjectId(a.reporter_id)) ELSE c3
    IN  [ids |-> ids, cond |-> c4]

\* {issue["assignee_id"] for issue in issues if "assignee_id" in issue}
AssigneeIdSet(d, a) ==
    LET found == FindProject(d, a.project_name) IN
    IF found = <<>> THEN {}
    ELSE LET issues == FindIssues(d, AssigneesQuery(SystemIdsOf(d, Head(found)), a))
         IN  {issues[i].assignee_id : i \in {j \in DOMAIN issues : issues[j].assignee_id # Missing}}

\* list(<set>): the iteration order of a Python set of ObjectId and str is
\* not fixed by the code; every order of the elements is possible
ListsOf(S) ==
    {s \in [1..Cardinality(S) -> S] : \A i, j \in 1..Cardinality(S) : s[i] = s[j] => i = j}

\* faulty variant: an unknown project is treated as a project without issues
AssigneesBody_NoProjectCheck(d, a, fault, ord) ==
    IF fault \in {1, 2, 3} THEN Raise(StoreError)
    ELSE [assignees |-> [i \in DOMAIN ord |-> SerializeValue(ord[i])],
          count |-> Len(ord)]

AssigneesBody(d, a, fault, ord) ==
    IF fault = 1 THEN Raise(StoreError)
    ELSE LET found == FindProject(d, a.project_name) IN
    IF found = <<>> THEN [error |-> ProjectNotFound(a.project_name)]
    ELSE IF fault \in {2, 3} THEN Raise(StoreError)
    ELSE [assignees |-> [i \in DOMAIN ord |-> SerializeValue(ord[i])],
          count |-> Len(ord)]

\* ord: the order in which list() enumerates AssigneeIdSet(d, a)
get_project_assignees(d, a, fault, ord) == TryExcept(AssigneesBody(d, a, fault, ord))

\* -------------------------------------------- analyze_developer_expertise
\* the characters of the modelled texts and their lower-case forms
Lower(c) ==
    CASE c = "U" -> "u"
      [] c = "I" -> "i"
      [] c = "F" -> "f"
      [] c = "X" -> "x"
      [] OTHER -> c

\* {"$regex": pat, "$options": "i"} on a field: a case-insensitive search of
\* the (literal) pattern anywhere in a string field; other fields never match
RegexSearch(pat, field) ==
    /\ field.t = "txt"
    /\ \E i \in 1..(Len(field.v) - Len(pat.v) + 1) :
          \A j \in 1..Len(pat.v) : Lower(field.v[i + j - 1]) = Lower(pat.v[j])

get_issue_system_ids(d, project_name) ==
    LET found == FindProject(d, project_name) IN
    IF found = <<>> THEN <<>> ELSE SystemIdsOf(d, Head(found))

CountWhere(d, P(_)) == Len(SelectSeq(d.issue, P))

ComponentExperience(d, a, assignee_id) ==
    IF Truthy(a.component)
    THEN CountWhere(d, LAMBDA doc :
            /\ doc.issue_system_id \in Range(get_issue_system_ids(d, a.project_name))
            /\ doc.assignee_id = assignee_id
            /\ (RegexSearch(a.component, doc.component) \/ RegexSearch(a.component, doc.title)))
    ELSE 0

KeywordExperience(d, a, assignee_id) ==
    IF Truthy(a.keywords)
    THEN CountWhere(d, LAMBDA doc :
            /\ doc.issue_system_id \in Range(get_issue_system_ids(d, a.project_name))
            /\ doc.assignee_id = assignee_id
            /\ (RegexSearch(a.keywords, doc.title) \/ RegexSearch(a.keywords, doc.desc)))
    ELSE 0

ResolvedCount(d, a, assignee_id) ==
    CountWhere(d, LAMBDA doc :
        /\ doc.issue_system_id \in Range(get_issue_system_ids(d, a.project_name))
        /\ doc.assignee_id = assignee_id
        /\ doc.status = Str("Resolved"))

\* faulty variant: the component count is not weighted
ExpertiseScore_Unweighted(c, k, r) == c + k + r

ExpertiseScore(c, k, r) == c * 2 + k + r

\* assignee_id[-4:] of the modelled identifiers
Last4(s) ==
    CASE s = H1 -> "0a11"
      [] s = H2 -> "0b22"
      [] s = "carol" -> "arol"
      [] OTHER -> s

\* the dict appended for one assignee
Recommendation(d, a, assignee_id) ==
    LET c == ComponentExperience(d, a, assignee_id)
        k == KeywordExperience(d, a, assignee_id)
        r == ResolvedCount(d, a, assignee_id)
    IN  [developer_id |-> assignee_id.v,
         developer_name |-> <<"Dev-", Last4(assignee_id.v)>>,
         expertise_score |-> ExpertiseScore(c, k, r),
         component_experience |-> c,
         keyword_experience |-> k,
         resolved_issues |-> r]

\* store accesses made for one assignee: _get_issue_system_ids (2) and
\* count_documents (1) for each of the two or three queries
AccessesPerAssignee(a) ==
    3 + (IF Truthy(a.component) THEN 3 ELSE 0) + (IF Truthy(a.keywords) THEN 3 ELSE 0)

\* `if expertise_score > 0:` guards the append
Qualifies(rec) == rec.expertise_score > 0

\* the for loop over the assignees; n store accesses were made before it
RECURSIVE ExpertiseLoop(_, _, _, _, _)
ExpertiseLoop(d, a, assignees, fault, n) ==
    IF assignees = <<>> THEN [recs |-> <<>>]
    ELSE IF ~Truthy(Head(assignees)) THEN ExpertiseLoop(d, a, Tail(assignees), fault, n)
    ELSE IF fault > n /\ fault <= n + AccessesPerAssignee(a) THEN Raise(StoreError)
    ELSE LET rec == Recommendation(d, a, Head(assignees))
             rest == ExpertiseLoop(d, a, Tail(assignees), fault, n + AccessesPerAssignee(a))
         IN  IF Raised(rest) THEN rest
             ELSE [recs |-> (IF Qualifies(rec) THEN <<rec>> ELSE <<>>) \o rest.recs]

\* x placed behind every element whose score is not smaller: the sort is stable
InsertByScore(sorted, x) ==
    LET ahead == {i \in DOMAIN sorted : sorted[i].expertise_score >= x.expertise_score}
        k == Cardinality(ahead)
    IN  SubSeq(sorted, 1, k) \o <<x>> \o SubSeq(sorted, k + 1, Len(sorted))

\* faulty variant: the list is left in the order of discovery
SortByScore_Unsorted(recs) == recs

\* recommendations.sort(key=lambda x: x["expertise_score"], reverse=True)
RECURSIVE SortByScore(_)
SortByScore(recs) ==
    IF recs = <<>> THEN <<>>
    ELSE InsertByScore(SortByScore(SubSeq(recs, 1, Len(recs) - 1)), recs[Len(recs)])

TopN == 3

\* recommendations[:3] if len(recommendations) >= 3 else recommendations
TopRecommendations(recs) == IF Len(recs) >= TopN THEN SubSeq(recs, 1, TopN) ELSE recs

NoFilters(project_name) ==
    [project_name |-> project_name, status |-> Null, priority |-> Null,
     issue_type |-> Null, reporter_id |-> Null]

ExpertiseBody(d, a, fault, ord) ==
    LET assignees_result == get_project_assignees(d, NoFilters(a.project_name), fault, ord) IN
    IF "error" \in DOMAIN assignees_result THEN assignees_result
    ELSE LET loop == ExpertiseLoop(d, a, assignees_result.assignees, fault, 3) IN
    IF Raised(loop) THEN loop
    ELSE LET recommendations == SortByScore(loop.recs) IN
         [recommendations |-> TopRecommendations(recommendations),
          total_candidates |-> Len(recommendations)]

\* faulty variant: the body runs outside the try block
analyze_developer_expertise_NoTry(d, a, fault, ord) == ExpertiseBody(d, a, fault, ord)

analyze_developer_expertise(d, a, fault, ord) == TryExcept(ExpertiseBody(d, a, fault, ord))

\* -------------------------------------------------- list_unique_values
\* f"Collection '{collection_name}' does not exist."
CollectionNotFound(collection_name) ==
    [text |-> "Collection '{}' does not exist.", arg |-> collection_name]

\* db[collection].distinct(attribute, query) for a query of equality
\* conditions: the values of the attribute in the matching documents
Distinct(docs, attribute_name, cond) ==
    {docs[i][attribute_name] :
        i \in {j \in DOMAIN docs :
                /\ attribute_name \in DOMAIN docs[j]
                /\ docs[j][attribute_name] # Missing
                /\ \A f \in DOMAIN cond : f \in DOMAIN docs[j] /\ docs[j][f] = cond[f]}}

\* faulty variant: a collection that does not exist has no values
UniqueValuesBody_NoCollectionCheck(d, a, fault) ==
    IF fault \in {1, 2} THEN Raise(StoreError)
    ELSE IF a.collection_name.v \notin CollectionNames
    THEN [unique_values |-> {}]
    ELSE [unique_values |->
            {SerializeValue(x) : x \in Distinct(d[a.collection_name.v], a.attribute_name, a.filters)}]

UniqueValuesBody(d, a, fault) ==
    IF fault = 1 THEN Raise(StoreError)
    ELSE IF a.collection_name.v \notin CollectionNames
    THEN [error |-> CollectionNotFound(a.collection_name)]
    ELSE IF fault = 2 THEN Raise(StoreError)
    ELSE [unique_values |->
            {SerializeValue(x) : x \in Distinct(d[a.collection_name.v], a.attribute_name, a.filters)}]

list_unique_values(d, a, fault) == TryExcept(UniqueValuesBody(d, a, fault))

\* --------------------------------------------------- get_issue_details
\* f"Issue matching '{issue_identifier}' not found."
IssueNotFound(issue_identifier) ==
    [text |-> "Issue matching '{}' not found.", arg |-> issue_identifier]

\* faulty variant: an issue that has no comments is reported as not found
DetailsBody_NoCommentsNotFound(d, a, fault) ==
    LET found == SelectSeq(d.issue, LAMBDA doc : doc.external_id = a.issue_identifier) IN
    IF fault \in {1, 2, 3, 4} THEN Raise(StoreError)
    ELSE IF found = <<>> THEN [error |-> IssueNotFound(a.issue_identifier)]
    ELSE IF SelectSeq(d.issue_comment, LAMBDA c : c.issue_id = Head(found)._id) = <<>>
    THEN [error |-> IssueNotFound(a.issue_identifier)]
    ELSE [issue |-> SerializeDoc(Head(found)),
          comments |-> serialize_mongo_doc(
              SelectSeq(d.issue_comment, LAMBDA c : c.issue_id = Head(found)._id)),
          events |-> serialize_mongo_doc(
              SelectSeq(d.event, LAMBDA e : e.issue_id = Head(found)._id)),
          linked_commits |-> <<>>]

DetailsBody(d, a, fault) ==
    IF fault = 1 THEN Raise(StoreError)
    ELSE LET found == SelectSeq(d.issue, LAMBDA doc : doc.external_id = a.issue_identifier) IN
    IF found = <<>> THEN [error |-> IssueNotFound(a.issue_identifier)]
    ELSE IF fault \in {2, 3, 4} THEN Raise(StoreError)
    ELSE LET issue == Head(found) IN
         [issue |-> SerializeDoc(issue),
          comments |-> serialize_mongo_doc(
              SelectSeq(d.issue_comment, LAMBDA c : c.issue_id = issue._id)),
          events |-> serialize_mongo_doc(
              SelectSeq(d.event, LAMBDA e : e.issue_id = issue._id)),
          linked_commits |->
              LET commits == SelectSeq(d.commit, LAMBDA k : issue._id \in k.linked_issue_ids)
              IN  [i \in DOMAIN commits |->
                      [_id |-> SerializeValue(commits[i]._id),
                       linked_issue_ids |->
                          {SerializeValue(x) : x \in commits[i].linked_issue_ids}]]]

get_issue_details(d, a, fault) == TryExcept(DetailsBody(d, a, fault))

\* -------------------------------------------------- get_issue_comments
CommentsBody(d, a, fault) ==
    IF fault = 1 THEN Raise(StoreError)
    ELSE [comments |-> serialize_mongo_doc(
              SelectSeq(d.issue_comment, LAMBDA c : c.issue_id = a.issue_id))]

get_issue_comments(d, a, fault) == TryExcept(CommentsBody(d, a, fault))

\* ------------------------------------------------------------ the calls
ProjectNames == {Str("alpha"), Str("beta"), Str("ghost")}
StatusArgs == {Null, Str("Resolved")}
PriorityArgs == {Null, Str("Major")}
IssueTypeArgs == {Null, Str("Bug")}
AssigneeArgs == {Null, Str(H1), Str("bob")}
ReporterArgs == {Null, Str(H2)}
TextArgs == {Null, Txt(<<"u", "i">>), Txt(<<"F", "I", "X">>)}

NoCall == [op |-> "none"]

\* EventHandler.__init__
NewHandler ==
    [tool_outputs |-> <<>>, run_id |-> Null, all_tools_done |-> FALSE, tools_called |-> FALSE]

NoSubmit == [run_id |-> Null, tool_outputs |-> <<>>]

BotInit ==
    /\ pc = "prompt"
    /\ hpc = "idle"
    /\ handler = NewHandler
    /\ batch = <<>>
    /\ pos = 1
    /\ tool_outputs = <<>>
    /\ waitres = "none"
    /\ elapsed = 0
    /\ submitted = NoSubmit
    /\ signals = {}
    /\ err = FALSE

Init ==
    /\ db \in Stores
    /\ last = NoCall
    /\ BotInit

CallFetchProjectIssues ==
    /\ last = NoCall
    /\ \E pn \in ProjectNames, st \in StatusArgs, pr \in PriorityArgs, it \in IssueTypeArgs,
          asg \in AssigneeArgs, rep \in ReporterArgs,
          page \in 0..MaxPage, page_size \in 1..MaxPageSize, fault \in 0..4 :
        LET a == [project_name |-> pn, status |-> st, priority |-> pr, issue_type |-> it,
                  assignee_id |-> asg, reporter_id |-> rep, page |-> page,
                  page_size |-> page_size]
        IN  last' = [op |-> "fetch_project_issues", args |-> a, fault |-> fault,
                     result |-> fetch_project_issues(db, a, fault)]
    /\ UNCHANGED <<db, botvars>>

CallCountIssues ==
    /\ last = NoCall
    /\ \E pn \in ProjectNames, st \in StatusArgs, pr \in PriorityArgs, it \in IssueTypeArgs,
          asg \in AssigneeArgs, rep \in ReporterArgs, fault \in 0..3 :
        LET a == [project_name |-> pn, status |-> st, priority |-> pr, issue_type |-> it,
                  assignee_id |-> asg, reporter_id |-> rep]
        IN  last' = [op |-> "count_issues", args |-> a, fault |-> fault,
                     result |-> count_issues(db, a, fault)]
    /\ UNCHANGED <<db, botvars>>

CallGetProjectAssignees ==
    /\ last = NoCall
    /\ \E pn \in ProjectNames, st \in StatusArgs, pr \in PriorityArgs, it \in IssueTypeArgs,
          rep \in ReporterArgs, fault \in 0..3 :
        LET a == [project_name |-> pn, status |-> st, priority |-> pr, issue_type |-> it,
                  reporter_id |-> rep]
        IN  \E ord \in ListsOf(AssigneeIdSet(db, a)) :
              last' = [op |-> "get_project_assignees", args |-> a, fault |-> fault,
                       ord |-> ord, result |-> get_project_assignees(db, a, fault, ord)]
    /\ UNCHANGED <<db, botvars>>

CallAnalyzeDeveloperExpertise ==
    /\ last = NoCall
    /\ \E pn \in ProjectNames, comp \in TextArgs, kw \in TextArgs, fault \in 0..MaxFault :
        LET a == [project_name |-> pn, component |-> comp, keywords |-> kw]
        IN  \E ord \in ListsOf(AssigneeIdSet(db, NoFilters(pn))) :
              last' = [op |-> "analyze_developer_expertise", args |-> a, fault |-> fault,
                       ord |-> ord,
                       result |-> analyze_developer_expertise(db, a, fault, ord)]
    /\ UNCHANGED <<db, botvars>>

CallListUniqueValues ==
    /\ last = NoCall
    /\ \E cn \in {Str("issue"), Str("event"), Str("bugs")}, an \in {"status", "assignee_id"},
          fl \in {NoCond, AddCond(NoCond, "status", Str("Resolved"))}, fault \in 0..2 :
        LET a == [collection_name |-> cn, attribute_name |-> an, filters |-> fl]
        IN  last' = [op |-> "list_unique_values", args |-> a, fault |-> fault,
                     result |-> list_unique_values(db, a, fault)]
    /\ UNCHANGED <<db, botvars>>

CallGetIssueDetails ==
    /\ last = NoCall
    /\ \E ident \in {Str("ALPHA-1"), Str("ALPHA-7"), Str("ALPHA-8"), Str("alpha-1")},
          fault \in 0..4 :
        LET a == [issue_identifier |-> ident]
        IN  last' = [op |-> "get_issue_details", args |-> a, fault |-> fault,
                     result |-> get_issue_details(db, a, fault)]
    /\ UNCHANGED <<db, botvars>>

CallGetIssueComments ==
    /\ last = NoCall
    /\ \E id \in {Str("i1"), Oid("i1"), Str("i2"), Str("i9")}, fault \in 0..1 :
        LET a == [issue_id |-> id]
        IN  last' = [op |-> "get_issue_comments", args |-> a, fault |-> fault,
                     result |-> get_issue_comments(db, a, fault)]
    /\ UNCHANGED <<db, botvars>>

\* the result is handed to the caller; nothing is kept between calls
Return ==
    /\ last # NoCall
    /\ last' = NoCall
    /\ UNCHANGED <<db, botvars>>

Next ==
    \/ CallFetchProjectIssues
    \/ CallCountIssues
    \/ CallGetProjectAssignees
    \/ CallAnalyzeDeveloperExpertise
    \/ CallListUniqueValues
    \/ CallGetIssueDetails
    \/ CallGetIssueComments
    \/ Return

Spec == Init /\ [][Next]_vars

\* ------------------------------------------- serialize_mongo_doc alone
Scalars == {Str("a"), Null, Num(1), Oid(H1), Date("2024-01-02T03:04:05")}
Keys == {"_id", "created_at"}

\* lists and dicts that hold one value of the level below and at most one
\* more scalar beside it
ListsOver(inner) ==
    {List(<<>>)} \cup {List(<<x>>) : x \in inner}
        \cup {List(<<x, y>>) : x \in inner, y \in Scalars}

DictsOver(inner) ==
    {Dict([k \in {} |-> Null])}
        \cup {Dict([k \in {key} |-> x]) : key \in Keys, x \in inner}
        \cup {Dict([k \in Keys |-> IF k = "_id" THEN x ELSE y]) : x \in inner, y \in Scalars}

\* the values nested to a depth of at most n
RECURSIVE NestedValues(_)
NestedValues(n) ==
    IF n = 0 THEN Scalars
    ELSE Scalars \cup ListsOver(NestedValues(n - 1)) \cup DictsOver(NestedValues(n - 1))

\* input: the value passed; args.doc: the argument object after the call,
\* which no statement of the function assigns to
CallSerializeMongoDoc ==
    /\ last = NoCall
    /\ \E doc \in NestedValues(MaxDepth) :
          last' = [op |-> "serialize_mongo_doc", input |-> doc, args |-> [doc |-> doc],
                   fault |-> 0, result |-> SerializeMongoDoc(doc)]
    /\ UNCHANGED <<db, botvars>>

NextSerialize ==
    \/ CallSerializeMongoDoc
    \/ Return

\* the function reads nothing of the store
SerializeInit ==
    /\ Init
    /\ db.issue = <<>>

SpecSerialize == SerializeInit /\ [][NextSerialize]_vars

\* ------------------------------------------------- the tool dispatch
\* json.dumps(result) and json.loads(arguments): the JSON text of a value
JsonDumps(x) == [json |-> x]
JsonLoads(text) == text.json

\* {"error": "Unsupported function call."}
Unsupported == [text |-> "Unsupported function call.", arg |-> Null]

\* args[key] of a missing key
KeyError(key) == [text |-> "KeyError", arg |-> Str(key)]

\* args.get(key, default)
Get(args, key, default) == IF key \in DOMAIN args THEN args[key] ELSE default

DefaultPage == 1
DefaultPageSize == 50

\* the argument record passed to the project-scoped operations
IssueFilterArgs(args) ==
    [project_name |-> args.project_name,
     status |-> Get(args, "status", Null),
     priority |-> Get(args, "priority", Null),
     issue_type |-> Get(args, "issue_type", Null),
     assignee_id |-> Get(args, "assignee_id", Null),
     reporter_id |-> Get(args, "reporter_id", Null)]

AssigneeFilterArgs(args) ==
    [project_name |-> args.project_name,
     status |-> Get(args, "status", Null),
     priority |-> Get(args, "priority", Null),
     issue_type |-> Get(args, "issue_type", Null),
     reporter_id |-> Get(args, "reporter_id", Null)]

\* the if/elif chain of handle_requires_action: the result of one tool
\* call, or the exception that a missing required key raises
Route(d, func_name, args, fault, ord) ==
    CASE func_name = "fetch_project_issues" ->
            IF "project_name" \notin DOMAIN args THEN Raise(KeyError("project_name"))
            ELSE fetch_project_issues(d,
                    [project_name |-> args.project_name,
                     status |-> Get(args, "status", Null),
                     priority |-> Get(args, "priority", Null),
                     issue_type |-> Get(args, "issue_type", Null),
                     assignee_id |-> Get(args, "assignee_id", Null),
                     reporter_id |-> Get(args, "reporter_id", Null),
                     page |-> Get(args, "page", DefaultPage),
                     page_size |-> Get(args, "page_size", DefaultPageSize)], fault)
      [] func_name = "count_issues" ->
            IF "project_name" \notin DOMAIN args THEN Raise(KeyError("project_name"))
            ELSE count_issues(d, IssueFilterArgs(args), fault)
      [] func_name = "list_unique_values" ->
            IF "collection_name" \notin DOMAIN args THEN Raise(KeyError("collection_name"))
            ELSE IF "attribute_name" \notin DOMAIN args THEN Raise(KeyError("attribute_name"))
            ELSE list_unique_values(d,
                    [collection_name |-> args.collection_name,
                     attribute_name |-> args.attribute_name,
                     filters |-> Get(args, "filters", NoCond)], fault)
      [] func_name = "get_project_assignees" ->
            IF "project_name" \notin DOMAIN args THEN Raise(KeyError("project_name"))
            ELSE get_project_assignees(d, AssigneeFilterArgs(args), fault, ord)
      [] func_name = "get_issue_details" ->
            IF "issue_identifier" \notin DOMAIN args THEN Raise(KeyError("issue_identifier"))
            ELSE get_issue_details(d, [issue_identifier |-> args.issue_identifier], fault)
      [] func_name = "get_issue_comments" ->
            IF "issue_id" \notin DOMAIN args THEN Raise(KeyError("issue_id"))
            ELSE get_issue_comments(d, [issue_id |-> args.issue_id], fault)
      [] func_name = "analyze_developer_expertise" ->
            IF "project_name" \notin DOMAIN args THEN Raise(KeyError("project_name"))
            ELSE analyze_developer_expertise(d,
                    [project_name |-> args.project_name,
                     component |-> Get(args, "component", Null),
                     keywords |-> Get(args, "keywords", Null)], fault, ord)
      [] OTHER -> [error |-> Unsupported]

\* the orders in which list() may enumerate the assignee set of a call
RouteOrders(d, func_name, args) ==
    IF "project_name" \notin DOMAIN args THEN {<<>>}
    ELSE IF func_name = "get_project_assignees"
    THEN ListsOf(AssigneeIdSet(d, AssigneeFilterArgs(args)))
    ELSE IF func_name = "analyze_developer_expertise"
    THEN ListsOf(AssigneeIdSet(d, NoFilters(args.project_name)))
    ELSE {<<>>}

\* the function names and argument texts the agent may send
Functions == <<
    [name |-> "fetch_project_issues",
     arguments |-> JsonDumps([project_name |-> Str("alpha")])],
    [name |-> "count_issues",
     arguments |-> JsonDumps([project_name |-> Str("alpha"), status |-> Str("Resolved")])],
    [name |-> "count_issues",
     arguments |-> JsonDumps([status |-> Str("Resolved")])],
    [name |-> "list_unique_values",
     arguments |-> JsonDumps([collection_name |-> Str("issue"), attribute_name |-> "status"])],
    [name |-> "get_project_assignees",
     arguments |-> JsonDumps([project_name |-> Str("ghost")])],
    [name |-> "get_issue_details",
     arguments |-> JsonDumps([issue_identifier |-> Str("ALPHA-1")])],
    [name |-> "get_issue_comments",
     arguments |-> JsonDumps([issue_id |-> Str("i1")])],
    [name |-> "analyze_developer_expertise",
     arguments |-> JsonDumps([project_name |-> Str("alpha"), component |-> Txt(<<"u", "i">>)])],
    [name |-> "delete_project",
     arguments |-> JsonDumps([project_name |-> Str("alpha")])] >>

\* the names register_functions declares
Catalog ==
    {"fetch_project_issues", "get_issue_comments", "count_issues", "get_project_assignees",
     "list_unique_values", "get_issue_details", "analyze_developer_expertise"}

\* a batch: tool calls with distinct call identifiers
Batches ==
    UNION {{[k \in 1..n |-> [id |-> <<"call", k>>, function |-> Functions[f[k]]]] :
                f \in [1..n -> DOMAIN Functions]} : n \in 1..MaxBatch}

RunIds == {Str("run_1")}

\* the batches of a signal that arrives on the tool-outputs stream
FollowUps == {b \in Batches : Len(b) = 1}

\* the agent takes a submission as the answer to a signal: the run
\* identifier is the signal's and there is one output per call, in order
Answers(submission, signal) ==
    /\ submission.run_id = signal.run_id
    /\ [k \in DOMAIN submission.tool_outputs |-> submission.tool_outputs[k].tool_call_id]
          = [k \in DOMAIN signal.batch |-> signal.batch[k].id]

\* the stores of the conversation runs
BotStores == {s \in Stores : Len(s.issue) <= 1}

\* ------------------------------------------------------ event_handler
\* on_event with a thread.run.requires_action event
OnEvent ==
    /\ pc \in {"until_done", "tool_until_done"}
    /\ hpc = "idle"
    /\ \E b \in (IF pc = "until_done" THEN Batches ELSE FollowUps), rid \in RunIds :
        /\ handler' = [handler EXCEPT !.run_id = rid, !.tools_called = TRUE]
        /\ batch' = b
        /\ signals' = signals \cup {[run_id |-> rid, batch |-> b, stream |-> pc]}
    /\ pos' = 1
    /\ tool_outputs' = <<>>
    /\ hpc' = "dispatch"
    /\ UNCHANGED <<db, last, pc, waitres, elapsed, submitted, err>>

\* faulty variant: the new output is put in front of the list
AppendOutput_Prepend(outs, tool_call, result) ==
    <<[tool_call_id |-> tool_call.id, output |-> JsonDumps(result)]>> \o outs

\* tool_outputs.append(...) of the loop body
AppendOutput(outs, tool_call, result) ==
    Append(outs, [tool_call_id |-> tool_call.id, output |-> JsonDumps(result)])

\* one iteration of the loop of handle_requires_action
DispatchCall ==
    /\ hpc = "dispatch"
    /\ pos <= Len(batch)
    /\ LET tool_call == batch[pos]
           func_name == tool_call.function.name
           args == JsonLoads(tool_call.function.arguments)
       IN  \E fault \in {0, 1}, ord \in RouteOrders(db, func_name, args) :
             LET result == Route(db, func_name, args, fault, ord) IN
             IF Raised(result)
             THEN /\ hpc' = "raised"
                  /\ UNCHANGED <<pos, tool_outputs>>
             ELSE /\ tool_outputs' = AppendOutput(tool_outputs, tool_call, result)
                  /\ pos' = pos + 1
                  /\ UNCHANGED hpc
    /\ UNCHANGED <<db, last, signals, pc, handler, batch, waitres, elapsed, submitted, err>>

\* self.tool_outputs = tool_outputs
AssignOutputs ==
    /\ hpc = "dispatch"
    /\ pos > Len(batch)
    /\ handler' = [handler EXCEPT !.tool_outputs = tool_outputs]
    /\ hpc' = "flag"
    /\ UNCHANGED <<db, last, signals, pc, batch, pos, tool_outputs, waitres, elapsed,
                   submitted, err>>

\* self.all_tools_done = True
SetAllToolsDone ==
    /\ hpc = "flag"
    /\ handler' = [handler EXCEPT !.all_tools_done = TRUE]
    /\ hpc' = "returned"
    /\ UNCHANGED <<db, last, signals, pc, batch, pos, tool_outputs, waitres, elapsed,
                   submitted, err>>

\* --------------------------------------------------------------- main
\* a user message: a new EventHandler and a new stream
UserTurn ==
    /\ pc = "prompt"
    /\ hpc \in {"idle", "returned", "raised"}
    /\ handler' = NewHandler
    /\ hpc' = "idle"
    /\ batch' = <<>>
    /\ pos' = 1
    /\ tool_outputs' = <<>>
    /\ waitres' = "none"
    /\ elapsed' = 0
    /\ submitted' = NoSubmit
    /\ signals' = {}
    /\ err' = FALSE
    /\ pc' = "until_done"
    /\ UNCHANGED <<db, last>>

\* stream.until_done() returns: the stream ended, with or without a tool batch
UntilDoneReturns ==
    /\ pc = "until_done"
    /\ hpc \in {"idle", "returned"}
    /\ pc' = "wait"
    /\ UNCHANGED <<db, last, signals, hpc, handler, batch, pos, tool_outputs, waitres, elapsed,
                   submitted, err>>

\* an exception of the handler leaves until_done and is caught by main()
UntilDoneRaises ==
    /\ pc \in {"until_done", "tool_until_done"}
    /\ hpc = "raised"
    /\ err' = TRUE
    /\ pc' = "prompt"
    /\ UNCHANGED <<db, last, signals, hpc, handler, batch, pos, tool_outputs, waitres, elapsed,
                   submitted>>

Timeout == 5

\* wait_for_tools leaves its loop at once: the tools are done, or none was called
WaitForTools ==
    /\ pc = "wait"
    /\ handler.all_tools_done \/ ~handler.tools_called
    /\ waitres' = IF handler.all_tools_done THEN "done" ELSE "no tools"
    /\ pc' = "check"
    /\ UNCHANGED <<db, last, signals, hpc, handler, batch, pos, tool_outputs, elapsed,
                   submitted, err>>

\* time.sleep(0.1) in the loop, counted in seconds
WaitSleep ==
    /\ pc = "wait"
    /\ ~handler.all_tools_done
    /\ handler.tools_called
    /\ elapsed <= Timeout
    /\ elapsed' = elapsed + 1
    /\ UNCHANGED <<db, last, signals, pc, hpc, handler, batch, pos, tool_outputs, waitres,
                   submitted, err>>

\* time.time() - start_time > timeout: break
WaitTimeout ==
    /\ pc = "wait"
    /\ ~handler.all_tools_done
    /\ handler.tools_called
    /\ elapsed > Timeout
    /\ waitres' = "timeout"
    /\ pc' = "check"
    /\ UNCHANGED <<db, last, signals, hpc, handler, batch, pos, tool_outputs, elapsed,
                   submitted, err>>

\* if handler.tool_outputs: submit_tool_outputs_stream(run_id, tool_outputs)
\* with a new EventHandler, tool_handler, for the stream it opens
SubmitToolOutputs ==
    /\ pc = "check"
    /\ handler.tool_outputs # <<>>
    /\ LET submission == [run_id |-> handler.run_id, tool_outputs |-> handler.tool_outputs]
       IN  /\ submitted' = submission
           /\ signals' = {s \in signals : ~Answers(submission, s)}
    /\ handler' = NewHandler
    /\ hpc' = "idle"
    /\ batch' = <<>>
    /\ pos' = 1
    /\ tool_outputs' = <<>>
    /\ pc' = "tool_until_done"
    /\ UNCHANGED <<db, last, waitres, elapsed, err>>

\* tool_stream.until_done() returns: the turn ends, and main() reads nothing
\* of tool_handler
ToolStreamDone ==
    /\ pc = "tool_until_done"
    /\ hpc \in {"idle", "returned"}
    /\ pc' = "prompt"
    /\ UNCHANGED <<db, last, signals, hpc, handler, batch, pos, tool_outputs, waitres, elapsed,
                   submitted, err>>

\* nothing to submit: the turn ends
SkipSubmit ==
    /\ pc = "check"
    /\ handler.tool_outputs = <<>>
    /\ pc' = "prompt"
    /\ UNCHANGED <<db, last, signals, hpc, handler, batch, pos, tool_outputs, waitres, elapsed,
                   submitted, err>>

BotStoreInit ==
    /\ db \in BotStores
    /\ last = NoCall
    /\ BotInit

\* The conversation as the OpenAI client runs it: on_event is called inside
\* until_done, so main() waits for the handler to return or raise.
NextBot ==
    \/ UserTurn
    \/ OnEvent
    \/ DispatchCall
    \/ AssignOutputs
    \/ SetAllToolsDone
    \/ UntilDoneReturns
    \/ UntilDoneRaises
    \/ WaitForTools
    \/ SubmitToolOutputs
    \/ ToolStreamDone
    \/ SkipSubmit

SpecBot == BotStoreInit /\ [][NextBot]_vars

\* until_done returns while the handler is still at work on the batch: the
\* schedule wait_for_tools polls for
UntilDoneReturnsEarly ==
    /\ pc = "until_done"
    /\ hpc \in {"dispatch", "flag"}
    /\ pc' = "wait"
    /\ UNCHANGED <<db, last, signals, hpc, handler, batch, pos, tool_outputs, waitres, elapsed,
                   submitted, err>>

NextAsync ==
    \/ NextBot
    \/ UntilDoneReturnsEarly
    \/ WaitSleep
    \/ WaitTimeout

SpecAsync == BotStoreInit /\ [][NextAsync]_vars

\* =============================================================== claims
ProjectScoped ==
    {"fetch_project_issues", "count_issues", "get_project_assignees",
     "analyze_developer_expertise"}

\* no Project record of the store has this name
UnknownProject(d, project_name) ==
    \A k \in DOMAIN d.project : d.project[k].name # project_name

IsError(r) == DOMAIN r = {"error"}

\* C1: for a project name that no Project record has, every project-scoped
\* operation returns a result whose only field is error, with any optional
\* arguments and whatever the store does; the message is the not-found
\* message carrying that project name whenever the lookup of the project
\* itself was answered by the store.
C1_UnknownProjectIsError ==
    (last.op \in ProjectScoped /\ UnknownProject(db, last.args.project_name)) =>
        /\ IsError(last.result)
        /\ last.fault # 1 =>
              /\ last.result.error.text = "Project '{}' not found."
              /\ last.result.error.arg = last.args.project_name

C1_Witness ==
    /\ last.op = "analyze_developer_expertise"
    /\ last.args.project_name = Str("ghost")
    /\ Truthy(last.args.component)
    /\ last.fault = 0
    /\ IsError(last.result)
    /\ last.result.error.arg = Str("ghost")

\* the filter arguments of a fetch, without its pagination
FiltersOf(a) ==
    [project_name |-> a.project_name, status |-> a.status, priority |-> a.priority,
     issue_type |-> a.issue_type, assignee_id |-> a.assignee_id,
     reporter_id |-> a.reporter_id]

Paged(a, page, page_size) ==
    [project_name |-> a.project_name, status |-> a.status, priority |-> a.priority,
     issue_type |-> a.issue_type, assignee_id |-> a.assignee_id,
     reporter_id |-> a.reporter_id, page |-> page, page_size |-> page_size]

\* C2: for every store, existing project and filter combination, the
\* total_count a fetch returns equals the count that count_issues returns for
\* the same project and filters, and the count a count_issues call returns
\* equals the total_count of the fetch of every page and page size.
C2_CountEqualsTotalCount ==
    /\ (last.op = "fetch_project_issues" /\ "total_count" \in DOMAIN last.result) =>
          count_issues(db, FiltersOf(last.args), 0) = [count |-> last.result.total_count]
    /\ (last.op = "count_issues" /\ "count" \in DOMAIN last.result) =>
          \A page \in 1..MaxPage, page_size \in 1..MaxPageSize :
              LET r == fetch_project_issues(db, Paged(last.args, page, page_size), 0)
              IN  "total_count" \in DOMAIN r /\ r.total_count = last.result.count

C2_Witness ==
    /\ last.op = "fetch_project_issues"
    /\ "total_count" \in DOMAIN last.result
    /\ Truthy(last.args.status)
    /\ Truthy(last.args.issue_type)
    /\ last.args.page_size = 1
    /\ last.result.total_count = 2
    /\ Len(db.issue) = 4

Min(x, y) == IF x < y THEN x ELSE y
Max(x, y) == IF x > y THEN x ELSE y

\* the filtered set of a fetch, in store order
FilteredSet(d, a) ==
    FindIssues(d, FetchQuery(SystemIdsOf(d, Head(FindProject(d, a.project_name))), a))

\* C3: for an existing project, any filter, page >= 1 and page_size >= 1, a
\* fetch returns the records at positions (page-1)*page_size+1 through
\* page*page_size of the filtered set in store order, fewer when the set ends
\* earlier and none when the page starts at or past its end, and total_count
\* is the size of the whole filtered set.
C3_Pagination ==
    (last.op = "fetch_project_issues" /\ last.fault = 0 /\ last.args.page >= 1
        /\ ~UnknownProject(db, last.args.project_name)) =>
        LET a == last.args
            filtered == FilteredSet(db, a)
            first == (a.page - 1) * a.page_size
        IN  /\ DOMAIN last.result = {"issues", "page", "page_size", "total_count"}
            /\ Len(last.result.issues) = Max(0, Min(a.page_size, Len(filtered) - first))
            /\ \A k \in DOMAIN last.result.issues :
                  last.result.issues[k] = SerializeDoc(filtered[first + k])
            /\ last.result.total_count = Len(filtered)
            /\ last.result.page = a.page /\ last.result.page_size = a.page_size

C3_Witness ==
    /\ last.op = "fetch_project_issues"
    /\ last.fault = 0
    /\ last.args.page = 2
    /\ last.args.page_size = 2
    /\ "issues" \in DOMAIN last.result
    /\ Len(last.result.issues) = 1
    /\ last.result.total_count = 3
    /\ last.result.issues[1]._id = Str("i7")

\* the candidates analyze_developer_expertise scores: the non-null entries
\* of the assignee list, in the order the list has
Candidates(ord) == SelectSeq([i \in DOMAIN ord |-> SerializeValue(ord[i])], Truthy)

AnalysisDone ==
    last.op = "analyze_developer_expertise" /\ "recommendations" \in DOMAIN last.result

\* the score the code computes for a candidate
ScoreOf(d, a, x) ==
    2 * ComponentExperience(d, a, x) + KeywordExperience(d, a, x) + ResolvedCount(d, a, x)

\* C4: every recommendation has expertise_score = 2*component_experience +
\* keyword_experience + resolved_issues; a candidate whose three counts are
\* all 0 is in no recommendation and is not counted; total_candidates is the
\* number of all candidates with a nonzero score, returned or not.
C4_ScoreAndTotal ==
    AnalysisDone =>
        LET recs == last.result.recommendations
            cands == Candidates(last.ord)
        IN  /\ \A k \in DOMAIN recs :
                  /\ recs[k].expertise_score =
                        2 * recs[k].component_experience + recs[k].keyword_experience
                            + recs[k].resolved_issues
                  /\ recs[k].expertise_score > 0
                  /\ \E j \in DOMAIN cands :
                        /\ cands[j].v = recs[k].developer_id
                        /\ recs[k].component_experience =
                              ComponentExperience(db, last.args, cands[j])
                        /\ recs[k].keyword_experience =
                              KeywordExperience(db, last.args, cands[j])
                        /\ recs[k].resolved_issues = ResolvedCount(db, last.args, cands[j])
            /\ \A j \in DOMAIN cands :
                  (/\ ComponentExperience(db, last.args, cands[j]) = 0
                   /\ KeywordExperience(db, last.args, cands[j]) = 0
                   /\ ResolvedCount(db, last.args, cands[j]) = 0)
                  => \A k \in DOMAIN recs : recs[k].developer_id # cands[j].v
            /\ last.result.total_candidates =
                  Cardinality({j \in DOMAIN cands : ScoreOf(db, last.args, cands[j]) > 0})

C4_Witness ==
    /\ AnalysisDone
    /\ last.result.total_candidates = 3
    /\ Len(Candidates(last.ord)) = 4
    /\ \E k \in DOMAIN last.result.recommendations :
          /\ last.result.recommendations[k].component_experience = 1
          /\ last.result.recommendations[k].expertise_score = 4

\* an issue of the project: its issue system belongs to the project of that name
InProject(d, doc, project_name) ==
    \E s \in Range(d.issue_system), p \in Range(d.project) :
        s._id = doc.issue_system_id /\ s.project_id = p._id /\ p.name = project_name

\* the issue has this developer as assignee, stored in either form
AssignedTo(doc, x) == doc.assignee_id.t \in {"oid", "str"} /\ doc.assignee_id.v = x.v

\* the three counts as the specification defines them
SpecResolved(d, a, x) ==
    Cardinality({i \in DOMAIN d.issue :
        /\ InProject(d, d.issue[i], a.project_name)
        /\ AssignedTo(d.issue[i], x)
        /\ d.issue[i].status = Str("Resolved")})

SpecComponent(d, a, x) ==
    IF ~Truthy(a.component) THEN 0
    ELSE Cardinality({i \in DOMAIN d.issue :
        /\ InProject(d, d.issue[i], a.project_name)
        /\ AssignedTo(d.issue[i], x)
        /\ (RegexSearch(a.component, d.issue[i].component)
            \/ RegexSearch(a.component, d.issue[i].title))})

SpecKeyword(d, a, x) ==
    IF ~Truthy(a.keywords) THEN 0
    ELSE Cardinality({i \in DOMAIN d.issue :
        /\ InProject(d, d.issue[i], a.project_name)
        /\ AssignedTo(d.issue[i], x)
        /\ (RegexSearch(a.keywords, d.issue[i].title)
            \/ RegexSearch(a.keywords, d.issue[i].desc))})

\* C5 (the claim as stated): the three counts of every candidate count the
\* project's issues that have the candidate as assignee_id, stored as the
\* native identifier or as a plain string; so every recommendation carries
\* these counts, and a candidate with a nonzero count is recommended when
\* at most three qualify.
C5_CountsInEitherForm ==
    AnalysisDone =>
        LET recs == last.result.recommendations
            cands == Candidates(last.ord)
        IN  /\ \A k \in DOMAIN recs :
                  LET x == Str(recs[k].developer_id) IN
                  /\ recs[k].resolved_issues = SpecResolved(db, last.args, x)
                  /\ recs[k].component_experience = SpecComponent(db, last.args, x)
                  /\ recs[k].keyword_experience = SpecKeyword(db, last.args, x)
            /\ \A j \in DOMAIN cands :
                  (/\ SpecResolved(db, last.args, cands[j]) > 0
                   /\ last.result.total_candidates <= TopN)
                  => \E k \in DOMAIN recs : recs[k].developer_id = cands[j].v

\* C6: the recommendations are in non-increasing order of expertise_score,
\* there are min(3, total_candidates) of them, and no candidate left out of
\* the list has a score strictly greater than a candidate in the list.
C6_RankedTopThree ==
    AnalysisDone =>
        LET recs == last.result.recommendations
            cands == Candidates(last.ord)
        IN  /\ \A k \in 1..(Len(recs) - 1) :
                  recs[k].expertise_score >= recs[k + 1].expertise_score
            /\ Len(recs) = Min(3, last.result.total_candidates)
            /\ \A j \in DOMAIN cands :
                  (\E k \in DOMAIN recs :
                      ScoreOf(db, last.args, cands[j]) > recs[k].expertise_score)
                  => \E k \in DOMAIN recs : recs[k].developer_id = cands[j].v

C6_Witness ==
    /\ AnalysisDone
    /\ last.result.total_candidates = 4
    /\ Len(last.result.recommendations) = 3
    /\ last.result.recommendations[1].expertise_score = 4
    /\ last.result.recommendations[3].expertise_score = 1
    /\ Candidates(last.ord)[1].v = "dave"

\* the number of store accesses the call makes when none of them fails
AccessCount ==
    CASE last.op = "fetch_project_issues" ->
            IF UnknownProject(db, last.args.project_name) THEN 1
            ELSE IF last.args.page < 1 THEN 2 ELSE 4
      [] last.op \in {"count_issues", "get_project_assignees"} ->
            IF UnknownProject(db, last.args.project_name) THEN 1 ELSE 3
      [] last.op = "analyze_developer_expertise" ->
            IF UnknownProject(db, last.args.project_name) THEN 1
            ELSE 3 + Len(Candidates(last.ord)) * AccessesPerAssignee(last.args)
      [] last.op = "list_unique_values" ->
            IF last.args.collection_name.v \in CollectionNames THEN 2 ELSE 1
      [] last.op = "get_issue_details" ->
            IF \E i \in DOMAIN db.issue : db.issue[i].external_id = last.args.issue_identifier
            THEN 4 ELSE 1
      [] last.op = "get_issue_comments" -> 1
      [] OTHER -> 0

ResultFields ==
    {{"error"}, {"issues", "page", "page_size", "total_count"}, {"count"},
     {"unique_values"}, {"assignees", "count"},
     {"issue", "comments", "events", "linked_commits"}, {"comments"},
     {"recommendations", "total_candidates"}}

\* C7: each of the seven connector operations returns a result value and
\* never raises; when a store access inside the operation fails, at any of
\* its query steps, the result is the error result of that fault and has no
\* other field.
C7_NeverRaises ==
    last.op # "none" =>
        /\ ~Raised(last.result)
        /\ DOMAIN last.result \in ResultFields
        /\ (last.fault >= 1 /\ last.fault <= AccessCount) =>
              last.result = [error |-> StoreError]

C7_Witness ==
    /\ last.op = "analyze_developer_expertise"
    /\ last.fault = 5
    /\ last.args.component = Null
    /\ Truthy(last.args.keywords)
    /\ last.result = [error |-> StoreError]

\* the keys handle_requires_action subscripts for a function name
SubscriptedKeys(func_name) ==
    CASE func_name = "list_unique_values" -> {"collection_name", "attribute_name"}
      [] func_name = "get_issue_details" -> {"issue_identifier"}
      [] func_name = "get_issue_comments" -> {"issue_id"}
      [] func_name \in Catalog -> {"project_name"}
      [] OTHER -> {}

ArgsOf(tool_call) == JsonLoads(tool_call.function.arguments)

\* every call of the batch carries the keys its function needs
WellFormed(b) ==
    \A k \in DOMAIN b : SubscriptedKeys(b[k].function.name) \subseteq DOMAIN ArgsOf(b[k])

\* the outputs the operation of a tool call can compute in this store
OutputsOf(tool_call) ==
    {[tool_call_id |-> tool_call.id,
      output |-> JsonDumps(Route(db, tool_call.function.name, ArgsOf(tool_call), fault, ord))] :
        fault \in {0, 1},
        ord \in RouteOrders(db, tool_call.function.name, ArgsOf(tool_call))}

UnsupportedOutput(tool_call) ==
    [tool_call_id |-> tool_call.id, output |-> JsonDumps([error |-> Unsupported])]

\* C8 (the claim as stated): once the handler is through with a batch that
\* holds a call of a function name outside the catalog, nothing was raised,
\* that call's output is exactly {"error": "Unsupported function call."},
\* and every other call of the batch, before or after it, has its own output
\* as its operation computes it.
C8_UnsupportedDoesNotBlock ==
    (hpc \in {"returned", "raised"}
        /\ \E k \in DOMAIN batch : batch[k].function.name \notin Catalog) =>
        /\ hpc # "raised"
        /\ Len(handler.tool_outputs) = Len(batch)
        /\ \A k \in DOMAIN batch :
              IF batch[k].function.name \in Catalog
              THEN handler.tool_outputs[k] \in OutputsOf(batch[k])
              ELSE handler.tool_outputs[k] = UnsupportedOutput(batch[k])

\* C9: for a batch whose calls all carry their required keys, the handler
\* never raises, its local list holds at every moment the outputs of the
\* calls before the one it is at, in the order of the batch and each with
\* the identifier of its call, and all_tools_done is true only when
\* self.tool_outputs holds exactly one such output per call of the batch.
C9_SequentialInOrder ==
    (batch # <<>> /\ WellFormed(batch)) =>
        /\ hpc # "raised"
        /\ Len(tool_outputs) = pos - 1
        /\ pos <= Len(batch) + 1
        /\ \A k \in DOMAIN tool_outputs :
              /\ tool_outputs[k].tool_call_id = batch[k].id
              /\ tool_outputs[k] \in OutputsOf(batch[k])
        /\ handler.all_tools_done =>
              /\ handler.tool_outputs = tool_outputs
              /\ Len(handler.tool_outputs) = Len(batch)
        /\ ~handler.all_tools_done => hpc \in {"dispatch", "flag"}

C9_Witness ==
    /\ handler.all_tools_done
    /\ Len(batch) = 2
    /\ WellFormed(batch)
    /\ batch[1].function.name = "analyze_developer_expertise"
    /\ batch[2].function.name = "delete_project"
    /\ Len(handler.tool_outputs) = 2
    /\ pc = "check"

AssigneeIssues(d, a) ==
    FindIssues(d, AssigneesQuery(SystemIdsOf(d, Head(FindProject(d, a.project_name))), a))

\* the distinct non-null assignees of these issues, as normalized text
DistinctAssignees(d, a) ==
    {doc.assignee_id.v : doc \in {x \in Range(AssigneeIssues(d, a)) : x.assignee_id.t \in {"oid", "str"}}}

\* C11 (the claim as stated): for an existing project and any filter,
\* assignees holds no null, holds no value twice, holds exactly the
\* normalized distinct non-null assignee_id values of the matching issues,
\* and count is their number.
C11_DistinctNonNullAssignees ==
    (last.op = "get_project_assignees" /\ "assignees" \in DOMAIN last.result) =>
        LET list == last.result.assignees
            expected == DistinctAssignees(db, last.args)
        IN  /\ \A k \in DOMAIN list : list[k] # Null
            /\ \A j, k \in DOMAIN list : list[j] = list[k] => j = k
            /\ Range(list) = {Str(v) : v \in expected}
            /\ last.result.count = Cardinality(expected)

\* a stored field denotes the identifier that the text names, whether it is
\* stored as the native identifier or as the equal plain string
Denotes(stored, text) == stored.t \in {"oid", "str"} /\ stored.v = text.v

\* a supplied (truthy) filter value constrains the field, an absent one nothing
FilterHolds(doc, a, f) == (f \in DOMAIN a /\ Truthy(a[f])) => doc[f] = a[f]
IdFilterHolds(doc, a, f) == (f \in DOMAIN a /\ Truthy(a[f])) => Denotes(doc[f], a[f])

\* the issues an operation has to consider, as the specification defines them
SpecMatching(d, a) ==
    {i \in DOMAIN d.issue :
        /\ InProject(d, d.issue[i], a.project_name)
        /\ FilterHolds(d.issue[i], a, "status")
        /\ FilterHolds(d.issue[i], a, "priority")
        /\ FilterHolds(d.issue[i], a, "issue_type")
        /\ IdFilterHolds(d.issue[i], a, "assignee_id")
        /\ IdFilterHolds(d.issue[i], a, "reporter_id")}

\* a fetch or count that the store answered, for an existing project
Answered ==
    /\ last.op \in {"fetch_project_issues", "count_issues", "get_project_assignees"}
    /\ last.fault = 0
    /\ ~UnknownProject(db, last.args.project_name)
    /\ last.op = "fetch_project_issues" => last.args.page >= 1

\* C12 (the claim as stated): with an assignee_id or reporter_id filter given
\* as text, fetch_project_issues and count_issues count every issue of the
\* project whose field denotes that identifier, stored natively or as the
\* equal string (and meeting the other filters), and a fetch lists them.
C12_IdFilterMatchesEitherForm ==
    (Answered /\ last.op \in {"fetch_project_issues", "count_issues"}
        /\ (Truthy(last.args.assignee_id) \/ Truthy(last.args.reporter_id))) =>
        LET expected == SpecMatching(db, last.args) IN
        IF last.op = "count_issues"
        THEN last.result = [count |-> Cardinality(expected)]
        ELSE /\ "total_count" \in DOMAIN last.result
             /\ last.result.total_count = Cardinality(expected)
             /\ \A k \in DOMAIN last.result.issues :
                   \E i \in expected : last.result.issues[k] = SerializeDoc(db.issue[i])

\* C13 (the claim as stated): get_issue_comments called with the string form
\* of the identifier of an issue of the store returns the comments that
\* get_issue_details returns for that issue.
C13_CommentsByStringId ==
    (last.op = "get_issue_comments" /\ last.fault = 0 /\ last.args.issue_id.t = "str"
        /\ \E i \in DOMAIN db.issue : db.issue[i]._id = Oid(last.args.issue_id.v)) =>
        LET issue == Head(SelectSeq(db.issue, LAMBDA x : x._id = Oid(last.args.issue_id.v)))
            details == get_issue_details(db, [issue_identifier |-> issue.external_id], 0)
        IN  /\ "comments" \in DOMAIN last.result
            /\ last.result.comments = details.comments

\* C14 (the claim as stated): for an existing project and every combination
\* of filters, the issues that fetch_project_issues, count_issues and
\* get_project_assignees consider are exactly the issues of any issue system
\* of the project that meet every supplied filter; an issue that lacks a
\* filtered field is not among them, and the call does not fail.
C14_UnionAndConjunction ==
    Answered =>
        LET expected == SpecMatching(db, last.args) IN
        CASE last.op = "count_issues" -> last.result = [count |-> Cardinality(expected)]
          [] last.op = "fetch_project_issues" ->
                /\ "total_count" \in DOMAIN last.result
                /\ last.result.total_count = Cardinality(expected)
                /\ \A k \in DOMAIN last.result.issues :
                      \E i \in expected : last.result.issues[k] = SerializeDoc(db.issue[i])
          [] OTHER ->
                /\ "assignees" \in DOMAIN last.result
                /\ Range(last.ord) =
                      {db.issue[i].assignee_id :
                          i \in {j \in expected : db.issue[j].assignee_id # Missing}}

\* the result has the shape of the input: a list for a list, of the same
\* length, a dict for a dict, with the same keys, the text of an identifier
\* or datetime in its place, and any other scalar as it was
RECURSIVE SameShape(_, _)
SameShape(x, y) ==
    CASE x.t = "list" ->
            /\ y.t = "list"
            /\ Len(y.v) = Len(x.v)
            /\ \A i \in DOMAIN x.v : SameShape(x.v[i], y.v[i])
      [] x.t = "dict" ->
            /\ y.t = "dict"
            /\ DOMAIN y.v = DOMAIN x.v
            /\ \A k \in DOMAIN x.v : SameShape(x.v[k], y.v[k])
      [] x.t \in {"oid", "date"} -> y = Str(x.v)
      [] OTHER -> y = x

\* no native identifier and no datetime at any depth
RECURSIVE Plain(_)
Plain(x) ==
    CASE x.t = "list" -> \A i \in DOMAIN x.v : Plain(x.v[i])
      [] x.t = "dict" -> \A k \in DOMAIN x.v : Plain(x.v[k])
      [] OTHER -> x.t \notin {"oid", "date"}

\* C15: for every value nested from scalars, identifiers, datetimes, lists
\* and dicts, serialize_mongo_doc returns a value of the same shape with no
\* identifier or datetime at any depth, leaves its argument as it was, and
\* applied to its own result returns that result.
C15_SerializeShapeAndIdempotence ==
    last.op = "serialize_mongo_doc" =>
        /\ SameShape(last.input, last.result)
        /\ Plain(last.result)
        /\ last.args.doc = last.input
        /\ SerializeMongoDoc(last.result) = last.result

C15_Witness ==
    /\ last.op = "serialize_mongo_doc"
    /\ last.input = Dict([k \in Keys |->
                          IF k = "_id" THEN List(<<Oid(H1), Num(1)>>)
                          ELSE Date("2024-01-02T03:04:05")])
    /\ last.result.v["_id"] = List(<<Str(H1), Num(1)>>)
    /\ last.result.v["created_at"] = Str("2024-01-02T03:04:05")
    /\ last.args.doc = last.input

\* the records of a collection that refer to the issue, normalized
Referring(docs, issue) ==
    {SerializeDoc(docs[i]) : i \in {j \in DOMAIN docs : docs[j].issue_id = issue._id}}

C17_UnknownCollectionIsError ==
    (last.op = "list_unique_values" /\ last.args.collection_name.v \notin CollectionNames) =>
        /\ IsError(last.result)
        /\ last.fault # 1 =>
              /\ last.result.error.text = "Collection '{}' does not exist."
              /\ last.result.error.arg = last.args.collection_name

C17_Witness ==
    /\ last.op = "list_unique_values"
    /\ last.args.collection_name = Str("bugs")
    /\ last.args.filters # NoCond
    /\ last.fault = 0
    /\ IsError(last.result)
    /\ last.result.error.arg = Str("bugs")

\* the call carries the keys that the handler subscripts for its function
HasRequiredKeys(tool_call) ==
    SubscriptedKeys(tool_call.function.name) \subseteq DOMAIN ArgsOf(tool_call)

\* C18 (the claim as stated): once the handler is through with a batch, also
\* one in which a call of a catalog function lacks a required key, it has
\* returned with all_tools_done true and self.tool_outputs holds one output
\* per call: an output carrying an error for the call that lacks the key,
\* and for every other call the output its operation computes.
C18_MissingKeyGetsErrorOutput ==
    (batch # <<>> /\ hpc \notin {"dispatch", "flag"}) =>
        /\ hpc = "returned"
        /\ handler.all_tools_done
        /\ Len(handler.tool_outputs) = Len(batch)
        /\ \A k \in DOMAIN batch :
              /\ handler.tool_outputs[k].tool_call_id = batch[k].id
              /\ IF HasRequiredKeys(batch[k])
                 THEN handler.tool_outputs[k] \in OutputsOf(batch[k])
                 ELSE IsError(JsonLoads(handler.tool_outputs[k].output))

\* C19 (the claim as stated, for batches whose calls carry their required
\* keys): when a turn of the conversation loop has ended, no requires_action
\* signal of the turn is left without its outputs submitted under its run
\* identifier, whether it arrived on the run's stream or on the stream that
\* submits the outputs of an earlier batch.
C19_EverySignalAnswered ==
    (pc = "prompt" /\ \A s \in signals : WellFormed(s.batch)) => signals = {}

====
